---------------------------- MODULE Spec2Model ----------------------------
(***************************************************************************)
(* Parallel PSCAD batch runner: main.py / automation.py spawn one worker   *)
(* process (run_simulation) per simulation case with a staggered start,    *)
(* join all workers, drain the result queue (collect_results) and convert  *)
(* the successful cases' output to CSV (convert_results_to_csv).           *)
(***************************************************************************)
EXTENDS Integers, Sequences, FiniteSets, TLC

\* Number of cases in the batch (len(SIMULATIONS)); a bound of the model.
NumCases == 2

\* time.sleep(5): the stagger delay, in seconds.
Stagger == 5

Workers == 1..NumCases

\* os.getcwd() at start-up; the value convert_results_to_csv chdir()s back to.
WORKING_DIR == <<>>

\* os.path.join(simulations_dir, name): the folder of case `name`.
CaseDir(name) == <<"all_simulations", name>>

\* Files a case folder can hold. "dir" marks that the folder itself exists.
DirMark == "dir"
ProjectFile == "pscx"
OutputFile == "psout"
CsvFile == "csv"

VARIABLES
    test_name,      \* test_name[i]: identifier of the i-th case of SIMULATIONS
    master,         \* files of WORKING_DIR that the batch uses (the master project)
    log,            \* failure lines printed so far, by any process
    pc,             \* pc[i]: position of worker i inside run_simulation
    err,            \* err[i]: the statement whose exception worker i caught ("none" if none)
    run_returned,   \* run_returned[i]: project.run() of worker i has returned
    quit_called,    \* quit_called[i]: worker i has invoked pscad.quit()
    sent,           \* sent[i]: number of queue.put calls made by worker i
    buf,            \* buf[i]: records put by worker i, not yet written to the pipe
    results_queue,  \* records in the queue's pipe, readable by the orchestrator
    workspace,      \* workspace[n]: files of <SIMULATIONS_DIR>/<n> ({} = absent)
    age,            \* age[i]: seconds since p.start() of worker i (saturating)
    opc,            \* position of the orchestrator (__main__)
    started,        \* number of workers started so far (len(processes))
    slept,          \* seconds spent in the current time.sleep (saturating)
    joined,         \* number of p.join() calls that have returned
    nread,          \* number of records collect_results has taken off the queue
    test_results,   \* the list collect_results builds and returns
    converted,      \* number of cases convert_results_to_csv has finished
    cwd             \* current working directory of the orchestrator process

vars == <<test_name, master, log, pc, err, run_returned, quit_called, sent,
          buf, results_queue, workspace, age, opc, started, slept, joined,
          nread, test_results, converted, cwd>>

\* What no step of the batch writes: the case list and the master project.
fixed == <<test_name, master>>

wvars == <<pc, err, run_returned, quit_called, sent, buf, log>>
ovars == <<opc, started, slept, joined, nread, test_results, converted, cwd>>

----------------------------------------------------------------------------
\* Result records

\* queue.put({"psout_path": ..., "test_name": ..., "success": True})
SuccessRecord(name) ==
    [success |-> TRUE, test_name |-> name, psout_path |-> CaseDir(name)]

\* queue.put({"success": False, "error": str(e)})
FailureRecord(e) ==
    [success |-> FALSE, error |-> e]

\* The SIMULATIONS list: unique test names.
SIMULATIONS == [i \in Workers |-> i]

Names == {SIMULATIONS[i] : i \in Workers}

\* print(f"[ERR] {sim.test_name} failed: {e}") in the worker's except clause
ErrLine(name, e) == [by |-> "worker", test_name |-> name, error |-> e]

\* The state when the first worker is about to be spawned: SIMULATIONS_DIR
\* has just been removed and recreated, so no case folder exists.
InitRest ==
    /\ master = {ProjectFile}
    /\ log = {}
    /\ pc = [i \in Workers |-> "unstarted"]
    /\ err = [i \in Workers |-> "none"]
    /\ run_returned = [i \in Workers |-> FALSE]
    /\ quit_called = [i \in Workers |-> FALSE]
    /\ sent = [i \in Workers |-> 0]
    /\ buf = [i \in Workers |-> <<>>]
    /\ results_queue = <<>>
    /\ workspace = [n \in Names |-> {}]
    /\ age = [i \in Workers |-> 0]
    /\ opc = "spawn"
    /\ started = 0
    /\ slept = 0
    /\ joined = 0
    /\ nread = 0
    /\ test_results = <<>>
    /\ converted = 0
    /\ cwd = WORKING_DIR

Init ==
    /\ test_name = SIMULATIONS
    /\ InitRest

\* A case list whose last case repeats the first case's test name (Sim and
\* __main__ accept any name).
DuplicateNames ==
    [i \in Workers |-> IF i = NumCases THEN SIMULATIONS[1] ELSE SIMULATIONS[i]]

DupInit ==
    /\ test_name = DuplicateNames
    /\ InitRest

----------------------------------------------------------------------------
\* Worker process: run_simulation

\* A handler that swallows the exception without reporting it.
HandleExceptionSilently(i, e) ==
    /\ log' = log \cup {ErrLine(test_name[i], e)}
    /\ err' = [err EXCEPT ![i] = e]
    /\ pc' = [pc EXCEPT ![i] = "exiting"]
    /\ UNCHANGED <<buf, sent>>

\* except Exception as e: print the [ERR] line, then
\* queue.put({"success": False, "error": str(e)}).
\* Reached from whichever statement of the try block raised; after it the
\* function returns.
HandleException(i, e) ==
    /\ log' = log \cup {ErrLine(test_name[i], e)}
    /\ buf' = [buf EXCEPT ![i] = Append(@, FailureRecord(e))]
    /\ sent' = [sent EXCEPT ![i] = @ + 1]
    /\ err' = [err EXCEPT ![i] = e]
    /\ pc' = [pc EXCEPT ![i] = "exiting"]

\* A worker that runs the project without applying the parameter setters.
ProceedSkippingSetters(i, next) ==
    /\ pc' = [pc EXCEPT ![i] = IF next = "configure" THEN "run" ELSE next]
    /\ UNCHANGED <<buf, sent, err, log>>

\* The statement at pc[i] returned normally: go on to statement `next`.
Proceed(i, next) ==
    /\ pc' = [pc EXCEPT ![i] = next]
    /\ UNCHANGED <<buf, sent, err, log>>

\* A preparation that copies into whatever the folder already holds.
PreparedFolderKeepsStale(prior) == prior \cup {DirMark, ProjectFile}

\* The folder after `if os.path.exists(case): shutil.rmtree(case)`,
\* os.makedirs(case) and shutil.copy(master, case), from its prior content.
PreparedFolder(prior) ==
    LET removed == IF prior # {} THEN {} ELSE prior
        made == removed \cup {DirMark}
    IN  made \cup {ProjectFile}

\* 1. Prepare case folder: rmtree if it exists, makedirs, copy the master.
\*    A failing rmtree leaves the folder as it was, a failing makedirs
\*    leaves no folder, a failing copy (or a missing master) an empty folder.
Prepare(i) ==
    /\ pc[i] = "prepare"
    /\ LET prior == workspace[test_name[i]] IN
          \/ /\ ProjectFile \in master
             /\ workspace' = [workspace EXCEPT ![test_name[i]] = PreparedFolder(prior)]
             /\ Proceed(i, "launch")
          \/ /\ \E left \in {prior, {}, {DirMark}} :
                    workspace' = [workspace EXCEPT ![test_name[i]] = left]
             /\ HandleException(i, "prepare")
    /\ UNCHANGED <<fixed, run_returned, quit_called, results_queue, age,
                   ovars>>

\* 2. mhi.pscad.launch(...); a falsy handle raises RuntimeError.
Launch(i) ==
    /\ pc[i] = "launch"
    /\ \/ Proceed(i, "load")
       \/ HandleException(i, "launch")
    /\ UNCHANGED <<fixed, run_returned, quit_called, results_queue,
                   workspace, age, ovars>>

\* pscad.load, pscad.project, project.parameters, project.canvas
Load(i) ==
    /\ pc[i] = "load"
    /\ \/ Proceed(i, "configure")
       \/ HandleException(i, "load")
    /\ UNCHANGED <<fixed, run_returned, quit_called, results_queue,
                   workspace, age, ovars>>

\* 3. The parameter setters; a setter addressing a missing component raises.
Configure(i) ==
    /\ pc[i] = "configure"
    /\ \/ Proceed(i, "run")
       \/ HandleException(i, "configure")
    /\ UNCHANGED <<fixed, run_returned, quit_called, results_queue,
                   workspace, age, ovars>>

\* A worker that releases the engine in the handler of a failed run.
RunQuitsOnFailure(i) ==
    /\ pc[i] = "run"
    /\ \/ /\ Proceed(i, "put_success")
          /\ run_returned' = [run_returned EXCEPT ![i] = TRUE]
          /\ workspace' = [workspace EXCEPT ![test_name[i]] = @ \cup {OutputFile}]
          /\ UNCHANGED quit_called
       \/ /\ HandleException(i, "run")
          /\ quit_called' = [quit_called EXCEPT ![i] = TRUE]
          /\ UNCHANGED <<run_returned, workspace>>
    /\ UNCHANGED <<fixed, results_queue, age, ovars>>

\* project.run(): on return the output file is in the case folder.
Run(i) ==
    /\ pc[i] = "run"
    /\ \/ /\ Proceed(i, "put_success")
          /\ run_returned' = [run_returned EXCEPT ![i] = TRUE]
          /\ workspace' = [workspace EXCEPT ![test_name[i]] = @ \cup {OutputFile}]
       \/ /\ HandleException(i, "run")
          /\ UNCHANGED <<run_returned, workspace>>
    /\ UNCHANGED <<fixed, quit_called, results_queue, age, ovars>>

\* 4. Signal success: queue.put of the success record, before pscad.quit().
PutSuccess(i) ==
    /\ pc[i] = "put_success"
    /\ buf' = [buf EXCEPT ![i] = Append(@, SuccessRecord(test_name[i]))]
    /\ sent' = [sent EXCEPT ![i] = @ + 1]
    /\ pc' = [pc EXCEPT ![i] = "quit"]
    /\ UNCHANGED <<fixed, err, log, run_returned, quit_called,
                   results_queue, workspace, age, ovars>>

\* pscad.quit(): still inside the try block, so its exception is caught too.
Quit(i) ==
    /\ pc[i] = "quit"
    /\ quit_called' = [quit_called EXCEPT ![i] = TRUE]
    /\ \/ Proceed(i, "exiting")
       \/ HandleException(i, "quit")
    /\ UNCHANGED <<fixed, run_returned, results_queue, workspace, age,
                   ovars>>

\* A feeder that can write only while the pipe holds no unread record.
FlushIntoEmptyPipe(i) ==
    /\ buf[i] # <<>>
    /\ results_queue = <<>>
    /\ results_queue' = Append(results_queue, Head(buf[i]))
    /\ buf' = [buf EXCEPT ![i] = Tail(@)]
    /\ UNCHANGED <<fixed, pc, err, log, run_returned, quit_called, sent,
                   workspace, age, ovars>>

\* The queue's feeder thread of worker i writes a buffered record to the pipe.
Flush(i) ==
    /\ buf[i] # <<>>
    /\ results_queue' = Append(results_queue, Head(buf[i]))
    /\ buf' = [buf EXCEPT ![i] = Tail(@)]
    /\ UNCHANGED <<fixed, pc, err, log, run_returned, quit_called, sent,
                   workspace, age, ovars>>

\* run_simulation returns; the process exits once the feeder has flushed.
Exit(i) ==
    /\ pc[i] = "exiting"
    /\ buf[i] = <<>>
    /\ pc' = [pc EXCEPT ![i] = "exited"]
    /\ UNCHANGED <<fixed, err, log, run_returned, quit_called, sent, buf,
                   results_queue, workspace, age, ovars>>

----------------------------------------------------------------------------
\* Orchestrator: the __main__ block

Min(a, b) == IF a < b THEN a ELSE b

\* One second passes: the running sleep and the workers' ages advance.
Tick ==
    /\ \/ opc = "sleep" /\ slept < Stagger
       \/ \E i \in 1..started : age[i] < Stagger
    /\ slept' = IF opc = "sleep" THEN Min(slept + 1, Stagger) ELSE slept
    /\ age' = [i \in Workers |->
                  IF i <= started THEN Min(age[i] + 1, Stagger) ELSE age[i]]
    /\ UNCHANGED <<fixed, wvars, results_queue, workspace, opc, started,
                   joined, nread, test_results, converted, cwd>>

\* A spawn loop that refuses a case whose test name is already in use.
StartWorkerUniqueOnly ==
    /\ opc = "spawn"
    /\ started < NumCases
    /\ \A j \in 1..started : test_name[j] # test_name[started + 1]
    /\ started' = started + 1
    /\ pc' = [pc EXCEPT ![started + 1] = "prepare"]
    /\ age' = [age EXCEPT ![started + 1] = 0]
    /\ slept' = 0
    /\ opc' = "sleep"
    /\ UNCHANGED <<fixed, err, log, run_returned, quit_called, sent, buf,
                   results_queue, workspace, joined, nread, test_results,
                   converted, cwd>>

\* for simulation in SIMULATIONS: p = Process(...); processes.append(p);
\* p.start(); then time.sleep(5) begins.
StartWorker ==
    /\ opc = "spawn"
    /\ started < NumCases
    /\ started' = started + 1
    /\ pc' = [pc EXCEPT ![started + 1] = "prepare"]
    /\ age' = [age EXCEPT ![started + 1] = 0]
    /\ slept' = 0
    /\ opc' = "sleep"
    /\ UNCHANGED <<fixed, err, log, run_returned, quit_called, sent, buf,
                   results_queue, workspace, joined, nread, test_results,
                   converted, cwd>>

\* A sleep that returns at once (no stagger).
SleepReturnsAtOnce == TRUE

\* A sleep of one second instead of the full delay.
SleepOneSecond == slept >= 1

\* time.sleep(5) returns once the full delay has passed.
SleepElapsed == slept >= Stagger

\* End of one loop iteration: next case, or fall through to the join loop.
SleepDone ==
    /\ opc = "sleep"
    /\ SleepElapsed
    /\ opc' = IF started < NumCases THEN "spawn" ELSE "join"
    /\ UNCHANGED <<fixed, wvars, results_queue, workspace, age, started,
                   slept, joined, nread, test_results, converted, cwd>>

\* A join that does not wait for the process.
JoinReturnsAtOnce(p) == TRUE

\* p.join() returns only when process p has terminated.
ProcessTerminated(p) == pc[p] = "exited"

\* A join loop that raises when the joined worker reported a failure.
JoinRaisesOnFailure ==
    /\ opc = "join"
    /\ pc[joined + 1] = "exited"
    /\ joined' = joined + 1
    /\ opc' = IF err[joined + 1] # "none" THEN "aborted"
              ELSE IF joined + 1 = NumCases THEN "collect" ELSE "join"
    /\ UNCHANGED <<fixed, wvars, results_queue, workspace, age, started,
                   slept, nread, test_results, converted, cwd>>

\* for p in processes: p.join()
Join ==
    /\ opc = "join"
    /\ ProcessTerminated(joined + 1)
    /\ joined' = joined + 1
    /\ opc' = IF joined + 1 = NumCases THEN "collect" ELSE "join"
    /\ UNCHANGED <<fixed, wvars, results_queue, workspace, age, started,
                   slept, nread, test_results, converted, cwd>>

\* A collector that keeps every record it reads.
KeepEveryRecord(res) == TRUE

\* if res.get("success"): the record is kept, otherwise dropped.
Keep(res) == res.success

\* A collector that files each success in submission (test name) order.
CollectGetSorted ==
    /\ opc = "collect"
    /\ results_queue # <<>>
    /\ LET res == Head(results_queue)
           before == SelectSeq(test_results,
                               LAMBDA r : r.test_name <= res.test_name)
           after == SelectSeq(test_results,
                              LAMBDA r : r.test_name > res.test_name)
       IN  test_results' = IF res.success THEN before \o <<res>> \o after
                                          ELSE test_results
    /\ results_queue' = Tail(results_queue)
    /\ nread' = nread + 1
    /\ UNCHANGED <<fixed, wvars, workspace, age, opc, started, slept,
                   joined, converted, cwd>>

\* An empty() that may report an empty queue while records are unread.
QueueEmptyUnreliable == TRUE

\* results_queue.empty()
QueueEmpty == results_queue = <<>>

\* collect_results: one iteration of `while not results_queue.empty()`.
CollectGet ==
    /\ opc = "collect"
    /\ results_queue # <<>>
    /\ LET res == Head(results_queue) IN
          test_results' = IF Keep(res) THEN Append(test_results, res)
                                       ELSE test_results
    /\ results_queue' = Tail(results_queue)
    /\ nread' = nread + 1
    /\ UNCHANGED <<fixed, wvars, workspace, age, opc, started, slept,
                   joined, converted, cwd>>

\* collect_results: results_queue.empty() is true, return test_results.
CollectReturn ==
    /\ opc = "collect"
    /\ QueueEmpty
    /\ opc' = "convert"
    /\ UNCHANGED <<fixed, wvars, results_queue, workspace, age, started,
                   slept, joined, nread, test_results, converted, cwd>>

\* An exception leaving the for loop of convert_results_to_csv ends __main__.
ConvertRaise == opc' = "aborted"

\* A conversion that removes the .psout output once the csv is written.
ConvertCaseMovesOutput ==
    /\ opc = "convert"
    /\ converted < Len(test_results)
    /\ LET name == test_results[converted + 1].test_name IN
          /\ OutputFile \in workspace[name]
          /\ workspace' = [workspace EXCEPT ![name] = (@ \ {OutputFile}) \cup {CsvFile}]
    /\ converted' = converted + 1
    /\ cwd' = WORKING_DIR
    /\ UNCHANGED <<fixed, wvars, results_queue, age, opc, started, slept,
                   joined, nread, test_results>>

\* convert_results_to_csv: one iteration of `for case in test_results`:
\* chdir into the case folder, OutFile(psout).toCSV(csv_name), chdir back.
ConvertCase ==
    /\ opc = "convert"
    /\ converted < Len(test_results)
    /\ LET case == test_results[converted + 1]
           name == case.test_name
       IN  \/ /\ workspace[name] = {}                \* os.chdir raises
              /\ ConvertRaise
              /\ UNCHANGED <<workspace, converted, cwd>>
           \/ /\ workspace[name] # {}                \* toCSV raises
              /\ ConvertRaise
              /\ cwd' = CaseDir(name)
              /\ UNCHANGED <<workspace, converted>>
           \/ /\ workspace[name] # {}                \* toCSV writes the file
              /\ OutputFile \in workspace[name]
              /\ case.psout_path = CaseDir(name)
              /\ workspace' = [workspace EXCEPT ![name] = @ \cup {CsvFile}]
              /\ converted' = converted + 1
              /\ cwd' = WORKING_DIR
              /\ opc' = opc
    /\ UNCHANGED <<fixed, wvars, results_queue, age, started, slept,
                   joined, nread, test_results>>

\* The for loop of convert_results_to_csv is exhausted; __main__ ends.
ConvertReturn ==
    /\ opc = "convert"
    /\ converted = Len(test_results)
    /\ opc' = "done"
    /\ UNCHANGED <<fixed, wvars, results_queue, workspace, age, started,
                   slept, joined, nread, test_results, converted, cwd>>

----------------------------------------------------------------------------
\* Specifications

Worker(i) ==
    \/ Prepare(i)
    \/ Launch(i)
    \/ Load(i)
    \/ Configure(i)
    \/ Run(i)
    \/ PutSuccess(i)
    \/ Quit(i)
    \/ Flush(i)
    \/ Exit(i)

Orchestrator ==
    \/ StartWorker
    \/ SleepDone
    \/ Join
    \/ CollectGet
    \/ CollectReturn
    \/ ConvertCase
    \/ ConvertReturn

Next ==
    \/ Tick
    \/ Orchestrator
    \/ \E i \in Workers : Worker(i)

Spec == Init /\ [][Next]_vars

\* The system does not stop while some step is ready: time passes, the
\* orchestrator is scheduled, and each worker's current call returns or
\* raises. (Every step advances a position or a saturating clock, so no
\* step can be repeated for ever and this is all the fairness needed.)
FairSpec == Spec /\ WF_vars(Next)

\* The same batch run on a case list with repeated test names.
DupSpec == DupInit /\ [][Next]_vars

----------------------------------------------------------------------------
\* Claims about the worker's result records and about collection

Terminated(i) == pc[i] = "exited"

CollectReturned == opc \in {"convert", "done", "aborted"}

BatchEnded == opc \in {"done", "aborted"}

\* The positions of test_results holding a success record of case `name`.
SuccessesOf(name) ==
    {k \in 1..Len(test_results) :
        test_results[k].success /\ test_results[k].test_name = name}

\* C1: every worker puts exactly one record on the result queue before it
\* terminates, whichever step fails: never zero records and never two.
C1_ExactlyOneRecord ==
    \A i \in Workers :
        /\ sent[i] <= 1
        /\ Terminated(i) => sent[i] = 1

\* C2: after the join-all, collect_results reads exactly N records (one per
\* case) and leaves the queue empty.
C2_CollectsExactlyN ==
    CollectReturned => nread = NumCases /\ results_queue = <<>>

\* C3: the Result Set returned by collect_results holds exactly one Success
\* record for each case whose steps up to and including project.run()
\* succeeded, and no record for any other case.
C3_ResultSetIsRunCases ==
    CollectReturned =>
        /\ \A i \in Workers :
              Cardinality(SuccessesOf(test_name[i])) =
                  IF run_returned[i] THEN 1 ELSE 0
        /\ \A k \in 1..Len(test_results) :
              /\ test_results[k].success
              /\ \E i \in Workers : test_results[k].test_name = test_name[i]

\* A batch in which one case failed before its run returned and another
\* case ran, and the Result Set has been returned.
C3_Witness ==
    /\ CollectReturned
    /\ \E i, j \in Workers :
          /\ err[i] \in {"prepare", "launch", "load", "configure", "run"}
          /\ run_returned[j]
          /\ SuccessesOf(test_name[j]) # {}
          /\ SuccessesOf(test_name[i]) = {}

\* C4: every record of the Result Set handed to convert_results_to_csv is a
\* Success record; no Failure record is ever in the list.
C4_OnlySuccessRecords ==
    \A k \in 1..Len(test_results) : test_results[k].success

\* A Failure record was taken off the queue and the list was handed on.
C4_Witness ==
    /\ CollectReturned
    /\ nread > Len(test_results)
    /\ Len(test_results) > 0

\* C5: a conversion failure for one case does not abort the loop of
\* convert_results_to_csv: every later case of the Result Set still gets
\* its <case_id>.csv. (When the loop is left by an exception, `converted`
\* cases are done and case converted + 1 is the failing one.)
C5_ConversionContinues ==
    opc = "aborted" =>
        \A k \in (converted + 2)..Len(test_results) :
            CsvFile \in workspace[test_results[k].test_name]

----------------------------------------------------------------------------
\* Claims about worker isolation, the join barrier and the stagger

\* The state of worker j that run_simulation of another worker could touch.
WorkerState(j) ==
    <<pc[j], err[j], run_returned[j], quit_called[j], sent[j], buf[j]>>

\* C6: a worker whose parameter configuration fails emits a Failure record
\* and the failing step changes no sibling's state; whatever has failed
\* elsewhere, every started worker that has not terminated can take its own
\* next step, and a terminated worker has emitted its record.
C6_ConfigFailureIsolated ==
    /\ [][\A i \in Workers :
            (pc[i] = "configure" /\ pc'[i] = "exiting") =>
                /\ err'[i] = "configure"
                /\ sent'[i] = sent[i] + 1
                /\ buf'[i] = Append(buf[i], FailureRecord("configure"))
                /\ \A j \in Workers \ {i} : WorkerState(j)' = WorkerState(j)]_vars
    /\ [](\A j \in Workers :
             /\ pc[j] \notin {"unstarted", "exited"} => ENABLED Worker(j)
             /\ Terminated(j) => sent[j] >= 1)

\* One worker failed in configuration, a sibling ran to success, and both
\* have terminated with their record sent.
C6_Witness ==
    \E i, j \in Workers :
        /\ err[i] = "configure" /\ Terminated(i) /\ sent[i] = 1
        /\ err[j] = "none" /\ Terminated(j) /\ sent[j] = 1
        /\ run_returned[j]

\* C7: join-all barrier: the orchestrator reads no record from the result
\* queue and starts no conversion until every spawned worker process has
\* terminated.
C7_JoinAllBarrier ==
    (nread > 0 \/ converted > 0 \/ opc \in {"collect", "convert", "done", "aborted"})
        => \A i \in Workers : Terminated(i)

\* The orchestrator is inside collect_results with one record read and more
\* to come.
C7_Witness ==
    opc = "collect" /\ nread = 1 /\ results_queue # <<>>

C9_StaggeredStartInOrder ==
    /\ [][started' # started =>
            /\ started' = started + 1
            /\ pc[started + 1] = "unstarted"
            /\ pc'[started + 1] = "prepare"
            /\ \A k \in 1..started : pc[k] # "unstarted"
            /\ started >= 1 => age[started] >= Stagger]_vars
    /\ [](opc = "spawn" /\ started < NumCases => ENABLED StartWorker)

\* Two workers are in project.run() at the same time.
C9_Witness ==
    \E i, j \in Workers : i # j /\ pc[i] = "run" /\ pc[j] = "run"

----------------------------------------------------------------------------
\* Claims about error containment and engine shutdown

\* Case i failed: one of its steps up to and including project.run() raised.
CaseFailed(i) == err[i] \in {"prepare", "launch", "load", "configure", "run"}

\* C11: per-case errors never become a batch-level error: for every
\* combination of worker failures the orchestrator is never stuck before the
\* end of the batch, the Result Set has N minus the number of failed cases
\* records, the script is left early only by an exception of a conversion
\* it attempted, and with every case failed the Result Set is empty and no
\* conversion is attempted.
C11_NoBatchLevelError ==
    /\ (BatchEnded /\ \A i \in Workers : Terminated(i)) \/ ENABLED Next
    /\ CollectReturned =>
          Len(test_results) =
              NumCases - Cardinality({i \in Workers : CaseFailed(i)})
    /\ opc = "aborted" => converted < Len(test_results)
    /\ (CollectReturned /\ \A i \in Workers : CaseFailed(i)) =>
          /\ test_results = <<>>
          /\ converted = 0
          /\ cwd = WORKING_DIR
          /\ \A n \in Names : CsvFile \notin workspace[n]

\* Every case of the batch failed and the script has ended normally.
C11_Witness ==
    /\ opc = "done"
    /\ \A i \in Workers : CaseFailed(i)
    /\ test_results = <<>>

\* C12: a failure of pscad.quit() after a successful run is not escalated:
\* the worker emits no Failure record because of it and the case's Success
\* record stays the only record of that worker.
C12_QuitFailureNotEscalated ==
    \A i \in Workers :
        run_returned[i] =>
            /\ sent[i] <= 1
            /\ \A k \in 1..Len(buf[i]) : buf[i][k].success

----------------------------------------------------------------------------
\* Claims about the case folders

\* Every content a case folder can have before it is prepared.
FolderContents ==
    {{}} \cup {{DirMark} \cup f : f \in SUBSET {ProjectFile, OutputFile, CsvFile}}

FreshFolder == {DirMark, ProjectFile}

\* C13: workspace preparation is idempotent: whatever the folder held before
\* (nothing, or the project copy, output and csv of an earlier run), after
\* the preparation step it exists and holds exactly the freshly copied
\* master project; preparing twice gives the same as preparing once.
C13_PrepareIdempotent ==
    /\ [][\A i \in Workers :
            (pc[i] = "prepare" /\ pc'[i] = "launch") =>
                workspace'[test_name[i]] = FreshFolder]_vars
    /\ [](\A prior \in FolderContents :
             /\ PreparedFolder(prior) = FreshFolder
             /\ PreparedFolder(PreparedFolder(prior)) = PreparedFolder(prior))

\* The folder of the repeated name was prepared a second time after the first
\* worker's run had written its output into it, and holds the fresh copy only.
C13_Witness ==
    /\ pc[NumCases] = "launch"
    /\ test_name[NumCases] = test_name[1]
    /\ run_returned[1]
    /\ workspace[test_name[1]] = FreshFolder

\* Worker i got past its preparation step.
Prepared(i) == pc[i] \notin {"unstarted", "prepare"} /\ err[i] # "prepare"

\* C14: with unique identifiers no step of the batch deletes a case folder or
\* removes a file from it, so at the end of the batch every prepared case,
\* succeeded or failed, still has its folder and artifacts; the master
\* project is never modified.
C14_WorkspaceKept ==
    /\ [][/\ \A n \in Names : workspace[n] \subseteq workspace'[n]
          /\ master' = master]_vars
    /\ [](BatchEnded =>
             \A i \in Workers :
                 /\ Prepared(i) => FreshFolder \subseteq workspace[test_name[i]]
                 /\ run_returned[i] => OutputFile \in workspace[test_name[i]])

\* The batch has ended with a failed case's folder still holding its project
\* copy and a succeeded case's folder holding output and csv.
C14_Witness ==
    /\ BatchEnded
    /\ \E i, j \in Workers :
          /\ err[i] = "run"
          /\ workspace[test_name[i]] = FreshFolder
          /\ {OutputFile, CsvFile} \subseteq workspace[test_name[j]]

----------------------------------------------------------------------------
\* Claims about the working directory and the worker's state machine

\* C15: each per-case conversion leaves the working directory as it found
\* it, whether the conversion succeeds or raises, so the working directory
\* is unchanged when convert_results_to_csv ends, normally or by an error.
C15_CwdRestored ==
    CollectReturned => cwd = WORKING_DIR

\* The worker states of the design, from the position in run_simulation:
\* the run phase lasts until the process is about to exit.
StateOf(i) ==
    IF err[i] # "none" THEN "Failed"
    ELSE CASE pc[i] = "unstarted" -> "NotStarted"
           [] pc[i] = "prepare" -> "Preparing"
           [] pc[i] \in {"launch", "load"} -> "Launching"
           [] pc[i] = "configure" -> "Configuring"
           [] pc[i] \in {"run", "put_success", "quit"} -> "Running"
           [] OTHER -> "Succeeded"

\* The state changes the design allows.
StateOrder ==
    {<<"NotStarted", "Preparing">>, <<"Preparing", "Launching">>,
     <<"Launching", "Configuring">>, <<"Configuring", "Running">>,
     <<"Running", "Succeeded">>}
    \cup {<<st, "Failed">> :
             st \in {"Preparing", "Launching", "Configuring", "Running"}}

----------------------------------------------------------------------------
\* Claims about the order of results, failure logging and engine shutdown

\* C17: collect_results returns the Success records in the order they were
\* taken from the queue, without reordering: each record read is appended
\* after the ones read before it (or dropped), and conversion handles the
\* cases in that same order.
C17_ArrivalOrder ==
    [][/\ nread' # nread =>
            /\ nread' = nread + 1
            /\ results_queue # <<>>
            /\ test_results' \in
                  {test_results, Append(test_results, Head(results_queue))}
       /\ nread' = nread => test_results' = test_results
       /\ converted' # converted =>
            /\ converted' = converted + 1
            /\ \A n \in Names :
                  workspace'[n] # workspace[n] =>
                      n = test_results[converted + 1].test_name]_vars

\* The later case of the list arrived first: the Result Set is in arrival
\* order, not submission order, and the first conversion done is the later
\* case's.
C17_Witness ==
    /\ Len(test_results) = 2
    /\ test_results[1].test_name > test_results[2].test_name
    /\ converted = 1
    /\ CsvFile \in workspace[test_results[1].test_name]
    /\ CsvFile \notin workspace[test_results[2].test_name]

\* C18: every Failure record drained from the queue is logged by the
\* collector, with its case id, and a Failure record of a bound case carries
\* its case id: once the collector has dropped a record it has written a
\* log line, and every Failure record in a buffer or in the queue has a
\* test_name field (every failure of run_simulation happens with sim bound).
C18_CollectorLogsFailures ==
    /\ nread > Len(test_results) => \E l \in log : l.by = "collector"
    /\ \A k \in 1..Len(results_queue) :
          ~results_queue[k].success =>
              "test_name" \in DOMAIN results_queue[k]
    /\ \A i \in Workers : \A k \in 1..Len(buf[i]) :
          ~buf[i][k].success => "test_name" \in DOMAIN buf[i][k]

\* C19: pscad.quit() is invoked only on the success path, after the success
\* record was put: the step that invokes it is taken at the quit statement,
\* by a worker whose run returned and whose one record so far is the success
\* record; a worker that failed up to and including run never invokes it.
C19_QuitOnlyAfterSuccessPut ==
    /\ [][\A i \in Workers :
             quit_called'[i] # quit_called[i] =>
                 /\ pc[i] = "quit"
                 /\ run_returned[i]
                 /\ sent[i] = 1
                 /\ err[i] = "none"]_vars
    /\ [](\A i \in Workers :
             /\ CaseFailed(i) => ~quit_called[i]
             /\ quit_called[i] => run_returned[i] /\ sent[i] >= 1)

\* One worker has ended after a failed run without a shutdown call, another
\* has ended after a shutdown call that followed its success record.
C19_Witness ==
    \E i, j \in Workers :
        /\ pc[i] = "exited" /\ err[i] = "run" /\ ~quit_called[i]
        /\ pc[j] = "exited" /\ err[j] = "none" /\ quit_called[j]
        /\ \E k \in 1..Len(results_queue) :
              /\ results_queue[k].success
              /\ results_queue[k].test_name = test_name[j]

----------------------------------------------------------------------------
\* Claims about cases that share a test name

\* What worker i's own steps have put in its case folder so far.
OwnFiles(i) ==
    IF ~Prepared(i) THEN {}
    ELSE FreshFolder \cup (IF run_returned[i] THEN {OutputFile} ELSE {})

\* Worker i is between its preparation and its end, not failed.
Live(i) == StateOf(i) \in {"Launching", "Configuring", "Running"}

\* C20: test names are not checked for uniqueness.  The spawn loop starts a
\* worker for every case of the list, a repeated name included, and the only
\* step that takes a file out of a case folder is the preparation step of a
\* worker with that test name (its removal of the existing folder), whatever
\* the state of the other workers using the folder.
C20_DuplicateNamesNotChecked ==
    /\ [](opc = "spawn" /\ started < NumCases => ENABLED StartWorker)
    /\ [](opc \in {"join", "collect", "convert", "done", "aborted"} =>
             \A i \in Workers : pc[i] # "unstarted")
    /\ [][\A n \in Names :
             ~(workspace[n] \subseteq workspace'[n]) =>
                 \E j \in Workers :
                     /\ test_name[j] = n
                     /\ pc[j] = "prepare"
                     /\ pc'[j] \in {"launch", "exiting"}]_vars

\* Two workers share a test name; the later one has done its preparation
\* while the earlier one is launching, configuring or running, and the
\* folder no longer holds all the files the earlier worker put there.
C20_Witness ==
    \E i, j \in Workers :
        /\ i < j
        /\ test_name[i] = test_name[j]
        /\ Live(i)
        /\ pc[j] \notin {"unstarted", "prepare"}
        /\ ~(OwnFiles(i) \subseteq workspace[test_name[i]])

=============================================================================
